---- MODULE Spec2Model ----
(***************************************************************************)
(* A model of greenarm's STORN implementation (greenarm/models/STORN.py,   *)
(* greenarm/util.py): the STORNModel object with its train graph, its      *)
(* stateful predict graph and the checkpoint file, and the pure helpers    *)
(* add_samples_until_divisible, standard_input, do_sample, get_params and  *)
(* set_params.                                                             *)
(*                                                                         *)
(* Conventions.                                                            *)
(*  - A numpy array is a record [shape, data]: shape is the tuple of its   *)
(*    dimensions, data the sequence of its entries along axis 0 (each an   *)
(*    array body of the remaining shape, a number at the innermost axis).  *)
(*  - Floating point values are kept in units of 1/2, so 0.5 is Half = 1   *)
(*    and 1.0 is One = 2.                                                  *)
(*  - None is the empty tuple and a present value v the tuple <<v>>.       *)
(*  - A call's outcome is a record [raised, msg, value]: raised is the     *)
(*    exception type or "none"; msg is the exception's message as          *)
(*    [text, args] (the format string and the values formatted into it);   *)
(*    value is what the call returned.                                     *)
(*  - Weights are named by where they come from, not by their numbers:     *)
(*    a random initialisation, the end of an epoch of a fit call, the      *)
(*    middle of an interrupted epoch, or a file nobody in the model wrote. *)
(***************************************************************************)
EXTENDS Integers, Sequences, FiniteSets, TLC

VARIABLES
    self,           \* the STORNModel instance's configuration attributes
    train_model,    \* self.train_model: None or the train graph
    predict_model,  \* self.predict_model: None or the stateful predict graph
    fs,             \* the files of the output folder: path -> content
    training,       \* the running fit call: callbacks' state and epoch counter
    nfits,          \* number of fit calls started so far
    nbuilds,        \* number of build calls so far
    last,           \* the last operation called on the model and its outcome
    arg,            \* pure-function checks: the arguments of the call
    ret             \* pure-function checks: the outcome of the call

vars == <<self, train_model, predict_model, fs, training, nfits, nbuilds, last, arg, ret>>

modelVars == <<self, train_model, predict_model, fs, training, nfits, nbuilds, last>>

-----------------------------------------------------------------------------
(* Bounds of the model *)

\* add_samples_until_divisible is tried on arrays of 0..MaxLen rows
MaxLen == 4
\* and batch sizes 1..MaxBatch
MaxBatch == 3
\* dimensions (data_dim, latent_dim, series, timesteps) range over 1..MaxDim
MaxDim == 2
\* predict_one_step is called with 1..SmallN rows and with about
\* 1..MaxMicroBatches full micro-batches of rows
SmallN == 1
MaxMicroBatches == 2
\* fit calls, build calls, epochs of a fit call, validation losses 1..MaxLoss
MaxFits == 1
MaxBuilds == 1
MaxEpochs == 1
MaxLoss == 2
\* fit calls where fit is studied on its own
MaxFitCalls == 2
\* the largest n_deep a network is built with
MaxDeep == 3

-----------------------------------------------------------------------------
(* Values *)

\* Python's None and a present value, for anything that may be None
None == <<>>

Some(v) == <<v>>

Half == 1
One == 2

NoMsg == [text |-> "", args |-> <<>>]

\* the call returned v
Ok(v) == [raised |-> "none", msg |-> NoMsg, value |-> Some(v)]

\* the call returned None
OkNone == [raised |-> "none", msg |-> NoMsg, value |-> None]

\* the call raised type(text.format(args))
Raise(type, text, args) == [raised |-> type, msg |-> [text |-> text, args |-> args], value |-> None]

Range(s) == {s[i] : i \in DOMAIN s}

\* a Python list (or an array's body) with its elements computed
AsList(s) == SubSeq(s, 1, Len(s))

RECURSIVE Full(_, _)
\* the body of np.zeros / np.ones / np.full of the given shape
Full(shape, v) ==
    IF shape = <<>> THEN v
    ELSE [i \in 1..Head(shape) |-> Full(Tail(shape), v)]

NpFull(shape, v) == [shape |-> shape, data |-> Full(shape, v)]

NpZeros(shape) == NpFull(shape, 0)

\* np.vstack of two arrays with equal trailing dimensions
NpVStack(a, b) ==
    [shape |-> <<a.shape[1] + b.shape[1]>> \o Tail(a.shape),
     data |-> a.data \o b.data]

\* np.concatenate([a, b], axis=-1) of two 3-d arrays
NpConcatLast(a, b) ==
    [shape |-> <<a.shape[1], a.shape[2], a.shape[3] + b.shape[3]>>,
     data |-> [i \in 1..a.shape[1] |->
                 [t \in 1..a.shape[2] |-> a.data[i][t] \o b.data[i][t]]]]

-----------------------------------------------------------------------------
(* greenarm/util.py *)

AddSamplesUntilDivisible(x, batch_size) ==
    LET num_samples == x.shape[1]
        sample_shape == Tail(x.shape)
        num_missing == batch_size * (num_samples \div batch_size + 1) - num_samples
        missing_shape == <<num_missing>> \o sample_shape
    IN  NpVStack(x, NpZeros(missing_shape))

-----------------------------------------------------------------------------
(* STORNPriorModel.standard_input *)

StandardInputSwapped(number_of_series, seq_len, latent_dim, mode) ==
    LET shape == <<number_of_series, seq_len, latent_dim>> IN
    IF mode = "gauss"
    THEN Ok(NpConcatLast(NpFull(shape, One), NpZeros(shape)))
    ELSE IF mode = "bernoulli"
    THEN Ok(NpConcatLast(NpZeros(shape), NpFull(shape, Half)))
    ELSE Raise("ValueError", "Unknown mode!", <<>>)

StandardInput(number_of_series, seq_len, latent_dim, mode) ==
    LET shape == <<number_of_series, seq_len, latent_dim>> IN
    IF mode = "gauss"
    THEN LET sigma == NpFull(shape, One)
             my == NpZeros(shape)
         IN  Ok(NpConcatLast(my, sigma))
    ELSE IF mode = "bernoulli"
    THEN LET sigma == NpZeros(shape)
             my == NpFull(shape, Half)
         IN  Ok(NpConcatLast(my, sigma))
    ELSE Raise("ValueError", "Unknown mode!", <<>>)

-----------------------------------------------------------------------------
(* greenarm/models/sampling/sampling.py and STORNRecognitionModel.do_sample *)

\* K.random_normal / K.random_uniform draw the noise; the draw is an input
\* here: epsilon in whole units, uni in units of 1/2
SampleGauss(mu, sig, epsilon) ==
    [i \in DOMAIN mu |-> [k \in DOMAIN mu[i] |-> mu[i][k] + sig[i][k] * epsilon[i][k]]]

SampleBernoulli(p, uni) ==
    [i \in DOMAIN p |-> [k \in DOMAIN p[i] |-> IF uni[i][k] < p[i][k] THEN One ELSE 0]]

\* if batch_size is None: batch_size = K.shape(mu)[0]
SampleBatchSize(statistics, batch_size) ==
    IF batch_size = None THEN statistics.shape[1] ELSE batch_size[1]

DoSample(statistics, batch_size, dim_size, mode, noise) ==
    LET width == statistics.shape[2]
        mu == [i \in DOMAIN statistics.data |-> SubSeq(statistics.data[i], 1, dim_size)]
        sigma == [i \in DOMAIN statistics.data |-> SubSeq(statistics.data[i], dim_size + 1, width)]
        shape == <<SampleBatchSize(statistics, batch_size), dim_size>>
    IN  IF mode = "gauss"
        THEN Ok([shape |-> shape, data |-> SampleGauss(mu, sigma, noise)])
        ELSE IF mode = "bernoulli"
        THEN Ok([shape |-> shape, data |-> SampleBernoulli(mu, noise)])
        ELSE OkNone

-----------------------------------------------------------------------------
(* STORNModel.__init__, get_params, set_params *)

\* the keyword defaults of __init__; learning_rate in units of 0.001,
\* dropout in units of 1/2
DefaultArgs ==
    [latent_dim |-> 7, data_dim |-> 7, n_hidden_dense |-> 50, n_hidden_recurrent |-> 128,
     rec |-> "gauss", n_deep |-> 6, dropout |-> 0, activation |-> "tanh",
     with_trending_prior |-> FALSE, monitor |-> FALSE, output_folder |-> None,
     prefix |-> None, embedding |-> None, learning_rate |-> 1]

\* x or ""
OrEmpty(x) == IF x = None \/ x = Some("") THEN "" ELSE x[1]

\* the configuration attributes __init__ sets (the graphs it sets to None
\* are the variables train_model and predict_model)
Construct(kw) ==
    [data_dim |-> kw.data_dim,
     latent_dim |-> kw.latent_dim,
     n_hidden_dense |-> kw.n_hidden_dense,
     n_hidden_recurrent |-> kw.n_hidden_recurrent,
     n_deep |-> kw.n_deep,
     dropout |-> kw.dropout,
     activation |-> kw.activation,
     embedding |-> kw.embedding,
     rec |-> kw.rec,
     learning_rate |-> kw.learning_rate,
     with_trending_prior |-> kw.with_trending_prior,
     monitor |-> kw.monitor,
     output_folder |-> OrEmpty(kw.output_folder),
     prefix |-> OrEmpty(kw.prefix)]

\* a layer object is [class, config]; its serialised form {class_name, config}
GetParams(obj) ==
    [data_dim |-> obj.data_dim,
     latent_dim |-> obj.latent_dim,
     n_hidden_dense |-> obj.n_hidden_dense,
     n_hidden_recurrent |-> obj.n_hidden_recurrent,
     n_deep |-> obj.n_deep,
     dropout |-> obj.dropout,
     activation |-> obj.activation,
     with_trending_prior |-> obj.with_trending_prior,
     output_folder |-> obj.output_folder,
     prefix |-> obj.prefix,
     embedding |-> IF obj.embedding # None
                   THEN Some([class_name |-> obj.embedding[1].class,
                              config |-> obj.embedding[1].config])
                   ELSE None]

\* keras.layers.deserialize: a layer of the named class with the given config
Deserialize(d) == [class |-> d.class_name, config |-> d.config]

SetParams(obj, params) ==
    [param_name \in DOMAIN obj \cup DOMAIN params |->
        IF param_name \notin DOMAIN params THEN obj[param_name]
        ELSE IF param_name = "embedding"
        THEN IF params[param_name] = None THEN obj[param_name]
             ELSE Some(Deserialize(params[param_name][1]))
        ELSE params[param_name]]

-----------------------------------------------------------------------------
(* The graphs, their weights and the weight files *)

\* the micro-batch size predict_one_step pads to and predicts with
MicroBatch == 32
\* EarlyStopping(patience=25)
Patience == 25
\* np.Inf, the callbacks' initial best: above every validation loss
Inf == MaxLoss + 1

\* weights named by their origin
InitWeights(src, no) == [kind |-> "init", src |-> src, no |-> no, epoch |-> 0, loss |-> 0]

\* the weights at the end of epoch `epoch` of fit call `no`, whose validation loss is `loss`
EpochWeights(no, epoch, loss) == [kind |-> "trained", src |-> "fit", no |-> no, epoch |-> epoch, loss |-> loss]

\* the weights in the middle of the epoch after `epoch` completed ones
PartialWeights(no, epoch) == [kind |-> "partial", src |-> "fit", no |-> no, epoch |-> epoch, loss |-> 0]

\* the weights of a file written by nobody in the model
FileWeights == [kind |-> "file", src |-> "pretrained", no |-> 0, epoch |-> 0, loss |-> 0]

\* os.path.join(self.output_folder, self.prefix + name), kept as its parts
OutputPath(obj, name) == <<obj.output_folder, obj.prefix, name>>

WeightsPath(obj) == OutputPath(obj, "weights.h5")

ParamsPath(obj) == OutputPath(obj, "parameters.json")

\* a weights file a caller may hand to load_predict_weights
PretrainedPath == <<"", "", "pretrained.h5">>

\* layer(tensor): a tensor is written as the input's name followed by the
\* layers it has gone through
Apply(layer, tensor) == Append(tensor, layer)

RECURSIVE RecognDenseStack(_, _, _, _)
\* STORNRecognitionModel._build, the loop before the recurrent layer, from
\* its i-th round on: the dense layer's output is bound to the name
\* "layer", and recogn_input is rebound by the dropout only
RecognDenseStack(i, obj, recogn_input, dense) ==
    IF i >= obj.n_deep THEN [recogn_input |-> recogn_input, dense |-> dense]
    ELSE LET layer == Apply("dense", recogn_input)
         IN  RecognDenseStack(i + 1, obj,
                              IF obj.dropout # 0 THEN Apply("dropout", recogn_input)
                              ELSE recogn_input,
                              Append(dense, layer))

RECURSIVE DenseStack(_, _, _)
\* the loops after the recurrent layers: tensor = Dense(tensor), then
\* tensor = Dropout(tensor) when the rate is not 0
DenseStack(i, obj, tensor) ==
    IF i >= obj.n_deep THEN tensor
    ELSE LET dense == Apply("dense", tensor)
         IN  DenseStack(i + 1, obj, IF obj.dropout # 0 THEN Apply("dropout", dense) ELSE dense)

\* STORNRecognitionModel._build(phase, seq_shape, batch_size, embedding)
RecognitionBuild(obj, phase, embedding) ==
    LET x_t == <<IF phase = "train" THEN "stornREC_input_train" ELSE "stornREC_input_predict">>
        embedded == IF embedding # None THEN Apply("embedding", x_t) ELSE x_t
        stack == RecognDenseStack(0, obj, embedded, <<>>)
        recogn_rnn == Apply("recurrent", stack.recogn_input)
        recogn_map == DenseStack(0, obj, recogn_rnn)
    IN  [x_t |-> x_t,
         embedded |-> embedded,
         dense |-> stack.dense,
         rec_input |-> stack.recogn_input,
         recogn_rnn |-> [input |-> stack.recogn_input, stateful |-> (phase = "predict"),
                         output |-> recogn_rnn],
         recogn_stats |-> <<Apply("recognition_mu", recogn_map), Apply("recognition_sigma", recogn_map)>>]

\* STORNModel._build: a compiled graph with freshly initialised weights w.
\* The recurrent layers are stateful in the predict phase, and a stateful
\* recurrent layer cannot be built without a batch size.
BuildModel(phase, batch_size, w) ==
    IF phase = "train"
    THEN Ok([weights |-> w])
    ELSE IF batch_size = None
    THEN Raise("ValueError", "If a RNN is stateful, it needs to know its batch size.", <<>>)
    ELSE Ok([weights |-> w,
             batch_size |-> batch_size[1],
             states |-> [s \in 1..batch_size[1] |-> {}]])

\* Model.load_weights: the stored weights replace the graph's
LoadWeights(graph, stored) == [graph EXCEPT !.weights = stored]

ResetStatesKept(graph) == graph

\* Model.reset_states: every sample slot's recurrent state is cleared
ResetStates(graph) == [graph EXCEPT !.states = [s \in DOMAIN graph.states |-> {}]]

RECURSIVE PredictBatches(_, _, _, _, _)
\* Model.predict(rows, batch_size) on the stateful graph: the rows are
\* consumed batch_size at a time; row j of a batch is computed from the
\* recurrent state of slot j, which it then updates.  A slot's state is
\* kept as the set of rows that went into it since the last reset.
PredictBatches(graph, rows, batch_size, states, out) ==
    IF Len(out) >= Len(rows) THEN [states |-> states, out |-> out]
    ELSE LET base == Len(out)
             batch == [s \in 1..batch_size |->
                         [x |-> rows[base + s], h |-> states[s], w |-> graph.weights]]
         IN  PredictBatches(graph, rows, batch_size,
                            [s \in 1..batch_size |-> states[s] \cup {rows[base + s]}],
                            out \o batch)

\* row j of every input array, as the graph receives them together
ZipRows(arrays) ==
    AsList([j \in 1..arrays[1].shape[1] |-> AsList([q \in DOMAIN arrays |-> arrays[q].data[j]])])

TakeRowsAll(out, n_sequences) == out

\* [:n_sequences, :, :]
TakeRows(out, n_sequences) == SubSeq(out, 1, n_sequences)

-----------------------------------------------------------------------------
(* STORNModel: the operations *)

Call(op, args, out) == [op |-> op, args |-> args, out |-> out, log |-> <<>>, history |-> None]

\* the call has not returned yet
Running == [raised |-> "running", msg |-> NoMsg, value |-> None]

NoneTypeError(attr) == Raise("AttributeError", "'NoneType' object has no attribute '{}'", <<attr>>)

MissingFile(path) == Raise("OSError", "Unable to open file (name = '{}')", <<path>>)

\* build(seq_shape, batch_size)
Build(batch_size) ==
    /\ training = None
    /\ nbuilds' = nbuilds + 1
    /\ LET train == BuildModel("train", None, InitWeights("build_train", nbuilds + 1))
           predict == BuildModel("predict", batch_size, InitWeights("build_predict", nbuilds + 1))
       IN  /\ train_model' = train.value
           /\ IF predict.raised # "none"
              THEN /\ predict_model' = predict_model
                   /\ last' = Call("build", [batch_size |-> batch_size], predict)
              ELSE /\ predict_model' = predict.value
                   /\ last' = Call("build", [batch_size |-> batch_size], OkNone)
    /\ UNCHANGED <<self, fs, training, nfits, arg, ret>>

LoadPredictWeightsTrainSkipped(weights_file) ==
    /\ training = None
    /\ predict_model # None
    /\ fs[weights_file] # None
    /\ train_model # None
    /\ predict_model' = Some(LoadWeights(predict_model[1], fs[weights_file][1]))
    /\ last' = Call("load_predict_weights", [weights_file |-> weights_file], Ok(TRUE))
    /\ UNCHANGED <<train_model, self, fs, training, nfits, nbuilds, arg, ret>>

\* load_predict_weights(weights_file)
LoadPredictWeights(weights_file) ==
    /\ training = None
    /\ LET args == [weights_file |-> weights_file]
           stored == fs[weights_file]
       IN  IF predict_model = None
           THEN /\ last' = Call("load_predict_weights", args, NoneTypeError("load_weights"))
                /\ UNCHANGED <<train_model, predict_model>>
           ELSE IF stored = None
           THEN /\ last' = Call("load_predict_weights", args, MissingFile(weights_file))
                /\ UNCHANGED <<train_model, predict_model>>
           ELSE /\ predict_model' = Some(LoadWeights(predict_model[1], stored[1]))
                /\ IF train_model = None
                   THEN /\ train_model' = train_model
                        /\ last' = Call("load_predict_weights", args, NoneTypeError("load_weights"))
                   ELSE /\ train_model' = Some(LoadWeights(train_model[1], stored[1]))
                        /\ last' = Call("load_predict_weights", args, Ok(TRUE))
    /\ UNCHANGED <<self, fs, training, nfits, nbuilds, arg, ret>>

\* the body shared by reset_predict_model and reset_predict_model_states
ResetPredict(op) ==
    /\ training = None
    /\ IF predict_model = None
       THEN /\ predict_model' = predict_model
            /\ last' = Call(op, <<>>, NoneTypeError("reset_states"))
       ELSE /\ predict_model' = Some(ResetStates(predict_model[1]))
            /\ last' = Call(op, <<>>, OkNone)
    /\ UNCHANGED <<self, train_model, fs, training, nfits, nbuilds, arg, ret>>

\* reset_predict_model()
ResetPredictModel == ResetPredict("reset_predict_model")

\* reset_predict_model_states()
ResetPredictModelStates == ResetPredict("reset_predict_model_states")

\* list_in: the caller's inputs, plus the constant prior input when the
\* prior is not a trending one; an outcome, as standard_input may raise
ListIn(inputs, n_sequences, seq_len) ==
    IF self.with_trending_prior THEN Ok(inputs)
    ELSE LET prior == StandardInput(n_sequences, seq_len, self.latent_dim, self.rec)
         IN  IF prior.raised # "none" THEN prior ELSE Ok(inputs \o <<prior.value[1]>>)

\* the end of fit: self.train_model.load_weights(weights_path)
ReloadBest(graph, files) ==
    LET stored == files[WeightsPath(self)]
    IN  IF stored = None
        THEN [model |-> graph, out |-> MissingFile(WeightsPath(self))]
        ELSE [model |-> LoadWeights(graph, stored[1]), out |-> OkNone]

\* fit(inputs, target, max_epochs): from the call to the start of the first
\* epoch (to the return, when max_epochs is 0)
FitStart(inputs, target_shape, max_epochs) ==
    /\ training = None
    /\ LET n_sequences == target_shape[1]
           seq_len == target_shape[2]
           data_dim == target_shape[3]
           args == [data_dim |-> data_dim, max_epochs |-> max_epochs]
           list_in == ListIn(inputs, n_sequences, seq_len)
           no == nfits + 1
           built == BuildModel("train", None, InitWeights("fit", no)).value[1]
           files == [fs EXCEPT ![ParamsPath(self)] = Some(GetParams(self))]
           reloaded == ReloadBest(built, files)
       IN  IF self.data_dim # data_dim
           THEN /\ last' = Call("fit", args, Raise("AssertionError", "", <<>>))
                /\ UNCHANGED <<train_model, fs, training, nfits>>
           ELSE IF list_in.raised # "none"
           THEN /\ last' = Call("fit", args, list_in)
                /\ UNCHANGED <<train_model, fs, training, nfits>>
           ELSE /\ nfits' = no
                /\ fs' = files
                /\ IF max_epochs = 0
                   THEN /\ training' = None
                        /\ train_model' = Some(reloaded.model)
                        /\ last' = [Call("fit", args, reloaded.out) EXCEPT
                                       !.history = Some([epochs |-> 0, val_min |-> Inf])]
                   ELSE /\ training' = Some([no |-> no, max_epochs |-> max_epochs, epoch |-> 0,
                                             checkpoint_best |-> Inf,
                                             early_stop_best |-> Inf, wait |-> 0,
                                             val_min |-> Inf])
                        /\ train_model' = Some(built)
                        /\ last' = Call("fit", args, Running)
    /\ UNCHANGED <<self, predict_model, nbuilds, arg, ret>>

\* ModelCheckpoint(weights_path, save_best_only=True).on_epoch_end: the
\* monitored val_loss is compared with np.less
CheckpointSaves(val_loss, best) == val_loss < best

\* one epoch of self.train_model.fit(...) with its callbacks, in the order
\* [checkpoint, early_stop]; after the last epoch, or when early stopping
\* fires, fit reloads the best weights and returns
FitEpoch(val_loss) ==
    /\ training # None
    /\ LET t == training[1]
           epoch == t.epoch + 1
           w == EpochWeights(t.no, epoch, val_loss)
           saves == CheckpointSaves(val_loss, t.checkpoint_best)
           files == IF saves THEN [fs EXCEPT ![WeightsPath(self)] = Some(w)] ELSE fs
           improved == val_loss < t.early_stop_best
           wait == IF improved THEN 0 ELSE t.wait + 1
           stop_training == ~improved /\ wait >= Patience
           val_min == IF val_loss < t.val_min THEN val_loss ELSE t.val_min
           trained == LoadWeights(train_model[1], w)
           reloaded == ReloadBest(trained, files)
       IN  /\ fs' = files
           /\ IF epoch >= t.max_epochs \/ stop_training
              THEN /\ training' = None
                   /\ train_model' = Some(reloaded.model)
                   /\ last' = [last EXCEPT !.out = reloaded.out,
                                           !.history = Some([epochs |-> epoch, val_min |-> val_min])]
              ELSE /\ training' = Some([t EXCEPT !.epoch = epoch,
                                                 !.checkpoint_best = IF saves THEN val_loss ELSE @,
                                                 !.early_stop_best = IF improved THEN val_loss ELSE @,
                                                 !.wait = wait,
                                                 !.val_min = val_min])
                   /\ train_model' = Some(trained)
                   /\ last' = last
    /\ UNCHANGED <<self, predict_model, nfits, nbuilds, arg, ret>>

\* KeyboardInterrupt in the middle of an epoch: caught by fit's except
\* clause, logged, and fit goes on to reload the best weights
FitInterrupt ==
    /\ training # None
    /\ LET t == training[1]
           partial == LoadWeights(train_model[1], PartialWeights(t.no, t.epoch))
           reloaded == ReloadBest(partial, fs)
       IN  /\ training' = None
           /\ train_model' = Some(reloaded.model)
           /\ last' = [last EXCEPT !.out = reloaded.out,
                                   !.log = <<"Training interrupted! Restoring best weights and saving..">>,
                                   !.history = Some([epochs |-> t.epoch, val_min |-> t.val_min])]
    /\ UNCHANGED <<self, predict_model, fs, nfits, nbuilds, arg, ret>>

\* predict_one_step(inputs)
PredictOneStep(inputs) ==
    /\ training = None
    /\ LET n_sequences == inputs[1].shape[1]
           seq_len == inputs[1].shape[2]
           data_dim == inputs[1].shape[3]
           args == [n_sequences |-> n_sequences, data_dim |-> data_dim]
           list_in == ListIn(inputs, n_sequences, seq_len)
           _batch_size == MicroBatch
           pred_inputs == AsList([q \in DOMAIN list_in.value[1] |->
                              AddSamplesUntilDivisible(list_in.value[1][q], _batch_size)])
           built == BuildModel("predict", Some(_batch_size), InitWeights("lazy", 0))
       IN  IF self.data_dim # data_dim
           THEN /\ last' = Call("predict_one_step", args, Raise("AssertionError", "", <<>>))
                /\ UNCHANGED predict_model
           ELSE IF list_in.raised # "none"
           THEN /\ last' = Call("predict_one_step", args, list_in)
                /\ UNCHANGED predict_model
           ELSE IF predict_model = None
           THEN \* self.load_predict_weights() is called without its argument
                /\ predict_model' = built.value
                /\ last' = Call("predict_one_step", args,
                                Raise("TypeError",
                                      "load_predict_weights() missing 1 required positional argument: '{}'",
                                      <<"weights_file">>))
           ELSE IF predict_model[1].batch_size # _batch_size
           THEN \* the graph was built for another batch size than it is fed
                /\ last' = Call("predict_one_step", args,
                                Raise("ValueError", "expected batch size {} but got {}",
                                      <<predict_model[1].batch_size, _batch_size>>))
                /\ UNCHANGED predict_model
           ELSE LET run == PredictBatches(predict_model[1], ZipRows(pred_inputs), _batch_size,
                                          predict_model[1].states, <<>>)
                IN  /\ predict_model' = Some([predict_model[1] EXCEPT !.states = run.states])
                    /\ last' = Call("predict_one_step", args, Ok(TakeRows(run.out, n_sequences)))
    /\ UNCHANGED <<self, train_model, fs, training, nfits, nbuilds, arg, ret>>

\* the width of the combined output of _build: gen_mu, gen_sigma,
\* z_post_stats, z_prior_stats
CombinedWidth(obj) == obj.data_dim + obj.data_dim + 2 * obj.latent_dim + 2 * obj.latent_dim

\* n columns of one tensor, each named after the layer that produces it
Columns(name, n) == [k \in 1..n |-> name]

\* recognition_stats: Concatenate([recogn_mu, recogn_sigma])
RecognStats(obj) ==
    Columns("recognition_mu", obj.latent_dim) \o Columns("recognition_sigma", obj.latent_dim)

\* the prior statistics: the prior_stats of the trending prior, or else the
\* input layer that standard_input feeds
PriorStats(obj) ==
    IF obj.with_trending_prior
    THEN Columns("prior_mu", obj.latent_dim) \o Columns("prior_sigma", obj.latent_dim)
    ELSE Columns("storn_prior_input", 2 * obj.latent_dim)

CombinedOutputStatsFirst(obj) ==
    RecognStats(obj) \o PriorStats(obj)
        \o Columns("gen_mu", obj.data_dim) \o Columns("gen_sigma", obj.data_dim)

\* the output of _build:
\* Concatenate(axis=-1)([gen_mu, gen_sigma, z_post_stats, z_prior_stats])
CombinedOutput(obj) ==
    Columns("gen_mu", obj.data_dim) \o Columns("gen_sigma", obj.data_dim)
        \o RecognStats(obj) \o PriorStats(obj)

\* np.concatenate((target, np.zeros((n, len, 4 * latent_dim + data_dim))), axis=-1)
PaddedTarget(obj, data_dim) ==
    Columns("target", data_dim) \o Columns("zeros", 4 * obj.latent_dim + data_dim)

\* evaluate_offline(inputs, target)
EvaluateOffline(inputs, target_shape) ==
    /\ training = None
    /\ LET n_sequences == target_shape[1]
           seq_len == target_shape[2]
           data_dim == target_shape[3]
           args == [data_dim |-> data_dim]
           list_in == ListIn(inputs, n_sequences, seq_len)
           padded_width == data_dim + (4 * self.latent_dim + data_dim)
       IN  last' =
             IF data_dim # self.data_dim
             THEN Call("evaluate_offline", args,
                       Raise("AssertionError",
                             "Data dimensions do not match! Model is expecting {} features. Input has {}",
                             <<self.data_dim, data_dim>>))
             ELSE IF list_in.raised # "none"
             THEN Call("evaluate_offline", args, list_in)
             ELSE IF train_model = None
             THEN Call("evaluate_offline", args, NoneTypeError("predict"))
             ELSE Call("evaluate_offline", args,
                       Ok([prediction_width |-> data_dim,
                           padded_width |-> padded_width,
                           combined_width |-> CombinedWidth(self),
                           padded_target |-> PaddedTarget(self, data_dim),
                           predictions |-> CombinedOutput(self),
                           prediction |-> SubSeq(CombinedOutput(self), 1, data_dim),
                           weights |-> train_model[1].weights]))
    /\ UNCHANGED <<self, train_model, predict_model, fs, training, nfits, nbuilds, arg, ret>>

-----------------------------------------------------------------------------
(* The life of one STORNModel instance *)

\* the model's constructor arguments: the smallest and the largest data
\* dimensionality, with and without a trending prior
ModelArgs ==
    {[DefaultArgs EXCEPT !.data_dim = d, !.latent_dim = 1, !.with_trending_prior = t] :
        d \in {1, MaxDim}, t \in BOOLEAN}

\* a caller's input arrays x_t and x_tm1 of n sequences of one timestep;
\* sequence i is filled with the number i, so that rows can be told apart
InputArray(n, d) == [shape |-> <<n, 1, d>>, data |-> [i \in 1..n |-> <<[k \in 1..d |-> i]>>]]

Inputs(n, d) == <<InputArray(n, d), InputArray(n, d)>>

PredictSizes == (1..SmallN) \cup {MicroBatch * k + r : k \in 1..MaxMicroBatches, r \in 0..1}

BatchSizes == {None, Some(MicroBatch), Some(MicroBatch \div 2)}

Init ==
    /\ self \in {Construct(kw) : kw \in ModelArgs}
    /\ train_model = None
    /\ predict_model = None
    /\ fs = [path \in {WeightsPath(self), ParamsPath(self), PretrainedPath} |->
                IF path = PretrainedPath THEN Some(FileWeights) ELSE None]
    /\ training = None
    /\ nfits = 0
    /\ nbuilds = 0
    /\ last = Call("__init__", <<>>, OkNone)
    /\ arg = None
    /\ ret = None

\* every operation, on small inputs
Next ==
    \/ /\ nbuilds < MaxBuilds
       /\ \E batch_size \in BatchSizes : Build(batch_size)
    \/ \E weights_file \in {WeightsPath(self), PretrainedPath} : LoadPredictWeights(weights_file)
    \/ ResetPredictModel
    \/ ResetPredictModelStates
    \/ /\ nfits < MaxFits
       /\ \E d \in 1..MaxDim, max_epochs \in 0..MaxEpochs :
             FitStart(Inputs(MaxDim, d), <<MaxDim, MaxDim, d>>, max_epochs)
    \/ \E val_loss \in 1..MaxLoss : FitEpoch(val_loss)
    \/ FitInterrupt
    \/ \E n \in 1..SmallN, d \in 1..MaxDim : PredictOneStep(Inputs(n, d))
    \/ \E d \in 1..MaxDim : EvaluateOffline(Inputs(MaxDim, d), <<MaxDim, 1, d>>)

Spec == Init /\ [][Next]_vars

\* repeated fit calls, short ones and ones long enough for early stopping
NextFit ==
    \/ /\ nfits < MaxFitCalls
       /\ \E d \in 1..MaxDim, max_epochs \in {0, 1, Patience + 2} :
             FitStart(Inputs(MaxDim, d), <<MaxDim, MaxDim, d>>, max_epochs)
    \/ \E val_loss \in 1..MaxLoss : FitEpoch(val_loss)
    \/ FitInterrupt

SpecFit == Init /\ [][NextFit]_vars

\* one-step prediction on batches below, at and above the micro-batch size
NextPredict ==
    \/ /\ nbuilds < MaxBuilds
       /\ Build(Some(MicroBatch))
    \/ LoadPredictWeights(PretrainedPath)
    \/ ResetPredictModel
    \/ ResetPredictModelStates
    \/ \E n \in PredictSizes, d \in 1..MaxDim : PredictOneStep(Inputs(n, d))

SpecPredict == Init /\ [][NextPredict]_vars

\* models of every data and latent dimensionality up to MaxDim
EvalArgs ==
    {[DefaultArgs EXCEPT !.data_dim = d, !.latent_dim = l, !.with_trending_prior = t] :
        d \in 1..MaxDim, l \in 1..MaxDim, t \in BOOLEAN}

InitEval ==
    /\ self \in {Construct(kw) : kw \in EvalArgs}
    /\ train_model = None
    /\ predict_model = None
    /\ fs = [path \in {WeightsPath(self), ParamsPath(self), PretrainedPath} |->
                IF path = PretrainedPath THEN Some(FileWeights) ELSE None]
    /\ training = None
    /\ nfits = 0
    /\ nbuilds = 0
    /\ last = Call("__init__", <<>>, OkNone)
    /\ arg = None
    /\ ret = None

\* building or fitting a model, and evaluating it offline
NextEval ==
    \/ /\ nbuilds < MaxBuilds
       /\ \E batch_size \in BatchSizes : Build(batch_size)
    \/ /\ nfits < MaxFits
       /\ \E max_epochs \in 0..MaxEpochs :
             FitStart(Inputs(MaxDim, self.data_dim), <<MaxDim, MaxDim, self.data_dim>>, max_epochs)
    \/ \E val_loss \in 1..MaxLoss : FitEpoch(val_loss)
    \/ FitInterrupt
    \/ \E d \in 1..MaxDim : EvaluateOffline(Inputs(MaxDim, d), <<MaxDim, 1, d>>)

SpecEval == InitEval /\ [][NextEval]_vars

\* fitting a model again whose predict graph is in use
NextRefit ==
    \/ /\ nbuilds < MaxBuilds
       /\ Build(Some(MicroBatch))
    \/ \E weights_file \in {WeightsPath(self), PretrainedPath} : LoadPredictWeights(weights_file)
    \/ /\ nfits < MaxFitCalls
       /\ \E max_epochs \in 0..MaxEpochs :
             FitStart(Inputs(MaxDim, self.data_dim), <<MaxDim, MaxDim, self.data_dim>>, max_epochs)
    \/ \E val_loss \in 1..MaxLoss : FitEpoch(val_loss)
    \/ FitInterrupt
    \/ PredictOneStep(Inputs(1, self.data_dim))

SpecRefit == Init /\ [][NextRefit]_vars

-----------------------------------------------------------------------------
(* The pure functions, each called once on arguments drawn from small sets *)

\* distribution family strings a caller may pass
Modes == {"gauss", "bernoulli", "poisson", "Gauss"}

\* arrays of n samples of shape (1,)
PadArrays ==
    UNION {{[shape |-> <<n, 1>>, data |-> rows] : rows \in [1..n -> {<<0>>, <<One>>}]} : n \in 0..MaxLen}

\* posterior statistics of b samples: dim columns of mu, then dim of sigma
Statistics(b, dim, mu, sigma) ==
    [shape |-> <<b, 2 * dim>>,
     data |-> [i \in 1..b |-> [k \in 1..(2 * dim) |-> IF k <= dim THEN mu ELSE sigma]]]

\* constructor arguments of the instance whose parameters are read
ParamArgs ==
    {[latent_dim |-> l, data_dim |-> d, n_hidden_dense |-> 50, n_hidden_recurrent |-> 128,
      rec |-> r, n_deep |-> nd, dropout |-> dr, activation |-> a,
      with_trending_prior |-> t, monitor |-> FALSE, output_folder |-> o,
      prefix |-> p, embedding |-> e, learning_rate |-> lr] :
        l \in {7, MaxDim}, d \in {7, MaxDim}, r \in {"gauss", "bernoulli"}, nd \in {6, 1},
        dr \in {0, Half}, a \in {"tanh", "relu"}, t \in BOOLEAN,
        o \in {None, Some("out/")}, p \in {None, Some("run_")},
        e \in {None, Some([class |-> "Dense", config |-> [units |-> 8]])},
        lr \in {1, 10}}

PureCalls ==
    {[op |-> "add_samples_until_divisible", x |-> x, batch_size |-> b] :
        x \in PadArrays, b \in 1..MaxBatch}
    \cup
    {[op |-> "standard_input", number_of_series |-> n, seq_len |-> t, latent_dim |-> l, mode |-> m] :
        n \in 0..MaxDim, t \in 1..MaxDim, l \in 1..MaxDim, m \in Modes}
    \cup
    {[op |-> "do_sample", statistics |-> Statistics(b, l, mu, sigma),
      batch_size |-> IF given THEN Some(b) ELSE None, dim_size |-> l, mode |-> m] :
        b \in {1, 2}, l \in 1..MaxDim, mu \in {0, Half, One}, sigma \in {0, One},
        given \in BOOLEAN, m \in Modes}
    \cup
    {[op |-> "round_trip", kw |-> kw] : kw \in ParamArgs}
    \cup
    {[op |-> "recognition_build",
      kw |-> [DefaultArgs EXCEPT !.n_deep = n, !.dropout = dr, !.embedding = e],
      phase |-> ph] :
        n \in 1..MaxDeep, dr \in {0, Half},
        e \in {None, Some([class |-> "Dense", config |-> [units |-> 8]])},
        ph \in {"train", "predict"}}

InitPure ==
    /\ arg \in PureCalls
    /\ ret = None
    /\ self = Construct(DefaultArgs)
    /\ train_model = None
    /\ predict_model = None
    /\ fs = [path \in {WeightsPath(self), ParamsPath(self), PretrainedPath} |-> None]
    /\ training = None
    /\ nfits = 0
    /\ nbuilds = 0
    /\ last = Call("__init__", <<>>, OkNone)

CallAddSamples ==
    /\ ret = None
    /\ arg.op = "add_samples_until_divisible"
    /\ ret' = Some(Ok(AddSamplesUntilDivisible(arg.x, arg.batch_size)))
    /\ UNCHANGED <<arg, modelVars>>

CallStandardInput ==
    /\ ret = None
    /\ arg.op = "standard_input"
    /\ ret' = Some(StandardInput(arg.number_of_series, arg.seq_len, arg.latent_dim, arg.mode))
    /\ UNCHANGED <<arg, modelVars>>

\* the noise is drawn by the backend: standard normal values for the
\* Gaussian family, uniform values of [0, 1) for the Bernoulli family
CallDoSample ==
    /\ ret = None
    /\ arg.op = "do_sample"
    /\ \E noise \in [1..SampleBatchSize(arg.statistics, arg.batch_size) ->
                        [1..arg.dim_size -> IF arg.mode = "gauss" THEN {-1, 0, 1} ELSE {0, Half}]] :
          ret' = Some(DoSample(arg.statistics, arg.batch_size, arg.dim_size, arg.mode, noise))
    /\ UNCHANGED <<arg, modelVars>>

\* m = STORNModel(**kw); STORNModel().set_params(m.get_params())
CallRoundTrip ==
    /\ ret = None
    /\ arg.op = "round_trip"
    /\ LET m == Construct(arg.kw)
           params == GetParams(m)
       IN  ret' = Some([m |-> m, params |-> params,
                        fresh |-> SetParams(Construct(DefaultArgs), params)])
    /\ UNCHANGED <<arg, modelVars>>

\* STORNRecognitionModel(...).build(phase, embedding=embedding), as
\* STORNModel._build calls it
CallRecognitionBuild ==
    /\ ret = None
    /\ arg.op = "recognition_build"
    /\ LET m == Construct(arg.kw)
       IN  ret' = Some(Ok(RecognitionBuild(m, arg.phase, m.embedding)))
    /\ UNCHANGED <<arg, modelVars>>

NextPure ==
    \/ CallRecognitionBuild
    \/ CallAddSamples
    \/ CallStandardInput
    \/ CallDoSample
    \/ CallRoundTrip

SpecPure == InitPure /\ [][NextPure]_vars

-----------------------------------------------------------------------------
(* Properties *)

\* the last call on the model was op and it returned
Returned(op) == last.op = op /\ last.out.raised = "none"

\* the pure function op has been called
Called(op) == arg.op = op /\ ret # None

\* C1: predict_one_step on n sequences returns exactly n rows, and row i of
\* the result is the prediction computed from row i of every input,
\* whatever number of zero rows the padding to a multiple of 32 added.
C1_PredictKeepsRows ==
    Returned("predict_one_step") =>
        LET n == last.args.n_sequences
            inputs == Inputs(n, last.args.data_dim)
            rows == last.out.value[1]
        IN  /\ Len(rows) = n
            /\ \A i \in 1..n : \A q \in DOMAIN inputs : rows[i].x[q] = inputs[q].data[i]

\* C1 happens: a batch of more than one full micro-batch, itself a multiple
\* of the micro-batch size, has been predicted
C1_Witness ==
    /\ Returned("predict_one_step")
    /\ last.args.n_sequences = MicroBatch * MaxMicroBatches
    /\ Len(last.out.value[1]) = MicroBatch * MaxMicroBatches

\* the smallest multiple of b that is >= n
SmallestMultiple(b, n) ==
    CHOOSE m \in n..(n + b) : m % b = 0 /\ \A k \in n..(n + b) : k % b = 0 => m <= k

\* C2: add_samples_until_divisible(x, b) returns an array whose length is the
\* smallest multiple of b that is >= len(x), whose first len(x) rows are x
\* and whose other rows are all zero.
C2_PadsToSmallestMultiple ==
    Called("add_samples_until_divisible") =>
        LET n == arg.x.shape[1]
            padded == ret[1].value[1]
        IN  /\ padded.shape[1] = SmallestMultiple(arg.batch_size, n)
            /\ Len(padded.data) = padded.shape[1]
            /\ SubSeq(padded.data, 1, n) = arg.x.data
            /\ \A j \in (n + 1)..Len(padded.data) : padded.data[j] = <<0>>

\* C3: whenever fit (of at least one epoch) returns, the train graph holds
\* the weights of the completed epoch of this fit call with the lowest
\* validation loss.
C3_FitLeavesBestWeights ==
    (Returned("fit") /\ last.args.max_epochs >= 1) =>
        LET w == train_model[1].weights
        IN  /\ w.kind = "trained"
            /\ w.no = nfits
            /\ w.epoch <= last.history[1].epochs
            /\ w.loss = last.history[1].val_min

\* C4: an interrupt during fit's training loop is caught and logged, and fit
\* returns normally with checkpointed weights loaded into the train graph.
C4_InterruptDoesNotCrash ==
    (last.op = "fit" /\ training = None /\ last.log # <<>>) =>
        /\ last.out.raised = "none"
        /\ train_model[1].weights.kind = "trained"

\* the fields of ModelConfig
ConfigFields ==
    {"data_dim", "latent_dim", "n_hidden_dense", "n_hidden_recurrent", "n_deep", "dropout",
     "activation", "rec", "with_trending_prior", "embedding", "learning_rate",
     "output_folder", "prefix"}

\* C5: a default-constructed instance after set_params(m.get_params()) has
\* m's configuration in every ModelConfig field.
C5_ParamsRoundTrip ==
    Called("round_trip") =>
        \A field \in ConfigFields : ret[1].fresh[field] = ret[1].m[field]

\* C6: right after load_predict_weights(file) returns, the train graph and
\* the predict graph hold the same weights, those stored in the file.
C6_LoadGivesParity ==
    Returned("load_predict_weights") =>
        /\ train_model # None
        /\ predict_model # None
        /\ train_model[1].weights = predict_model[1].weights
        /\ Some(predict_model[1].weights) = fs[last.args.weights_file]

\* C6 happens: after a fit, the checkpoint has been loaded into both graphs
C6_Witness ==
    /\ Returned("load_predict_weights")
    /\ last.args.weights_file = WeightsPath(self)
    /\ predict_model[1].weights.kind = "trained"

\* C7: standard_input(n, T, L, mode) has shape (n, T, 2L); with mode "gauss"
\* every timestep is L zeros then L ones, with "bernoulli" L halves then L
\* zeros; with any other mode the call raises and returns nothing.
C7_StandardInputValues ==
    Called("standard_input") =>
        LET out == ret[1]
            n == arg.number_of_series
            T == arg.seq_len
            L == arg.latent_dim
            first == IF arg.mode = "gauss" THEN 0 ELSE Half
            second == IF arg.mode = "gauss" THEN One ELSE 0
        IN  IF arg.mode \in {"gauss", "bernoulli"}
            THEN /\ out.raised = "none"
                 /\ out.value[1].shape = <<n, T, 2 * L>>
                 /\ Len(out.value[1].data) = n
                 /\ \A i \in 1..n :
                       /\ Len(out.value[1].data[i]) = T
                       /\ \A t \in 1..T :
                             /\ Len(out.value[1].data[i][t]) = 2 * L
                             /\ \A k \in 1..L :
                                   /\ out.value[1].data[i][t][k] = first
                                   /\ out.value[1].data[i][t][L + k] = second
            ELSE /\ out.raised # "none"
                 /\ out.value = None

\* C7 happens: the Bernoulli prior input of several series has been built
C7_Witness ==
    /\ Called("standard_input")
    /\ arg.mode = "bernoulli"
    /\ arg.number_of_series = MaxDim
    /\ arg.latent_dim = MaxDim
    /\ ret[1].raised = "none"

\* C8: do_sample and standard_input, given a family string other than
\* "gauss" and "bernoulli", raise an error whose message names the string,
\* and return nothing.
C8_UnknownModeFails ==
    ((Called("do_sample") \/ Called("standard_input")) /\ arg.mode \notin {"gauss", "bernoulli"}) =>
        /\ ret[1].raised # "none"
        /\ arg.mode \in Range(ret[1].msg.args)
        /\ ret[1].value = None

\* the step is a call of op with data of a dimensionality other than data_dim
MismatchedCall(op) ==
    /\ training = None
    /\ last' # last
    /\ last'.op = op
    /\ last'.args.data_dim # self.data_dim

\* C9: fit, predict_one_step and evaluate_offline, given data whose
\* dimensionality differs from data_dim, raise before any graph is rebuilt
\* or file written, with a message naming the expected and the actual one.
C9_MismatchRaisesNamingBoth ==
    [][(MismatchedCall("fit") \/ MismatchedCall("predict_one_step") \/ MismatchedCall("evaluate_offline")) =>
          /\ last'.out.raised \notin {"none", "running"}
          /\ last'.out.msg.args = <<self.data_dim, last'.args.data_dim>>
          /\ UNCHANGED <<train_model, predict_model, fs>>]_vars

\* C10: predict_one_step called while predict_model is None builds the
\* predict graph for the micro-batch size, loads trained weights into it and
\* returns a prediction without raising.
C10_LazyBuildPredicts ==
    [][(/\ training = None
        /\ predict_model = None
        /\ last' # last
        /\ last'.op = "predict_one_step"
        /\ last'.args.data_dim = self.data_dim) =>
          /\ last'.out.raised = "none"
          /\ predict_model' # None
          /\ predict_model'[1].batch_size = MicroBatch
          /\ predict_model'[1].weights.kind # "init"]_vars

\* a step in which the operation op ran and returned
Ran(op) ==
    /\ last'.op = op
    /\ last'.out.raised = "none"
    /\ last' # last \/ predict_model' # predict_model

ResetOps == {"reset_predict_model", "reset_predict_model_states"}

\* C11: reset_predict_model and reset_predict_model_states have one and the
\* same effect: when either returns, every slot of the predict graph's
\* recurrent state is cleared and the weights of both graphs are what they
\* were.  A predict_one_step call that returns has computed row i of the
\* first micro-batch from the state the call before it left in slot i, and
\* every row from nothing but the state left in its slot and the rows of
\* this call that went through the slot before it: so the state is carried
\* from call to call, and after a reset the outputs depend only on what was
\* fed since.
C11_ResetClearsState ==
    [][/\ \A op \in ResetOps :
             Ran(op) =>
                /\ \A s \in DOMAIN predict_model'[1].states : predict_model'[1].states[s] = {}
                /\ predict_model'[1].weights = predict_model[1].weights
                /\ predict_model'[1].batch_size = predict_model[1].batch_size
                /\ train_model' = train_model
       /\ Ran("predict_one_step") =>
             LET out == last'.out.value[1]
                 before == predict_model[1].states
                 slot(i) == ((i - 1) % MicroBatch) + 1
             IN  /\ \A i \in DOMAIN out : i <= MicroBatch => out[i].h = before[i]
                 /\ \A i \in DOMAIN out :
                        out[i].h \subseteq
                           before[slot(i)] \cup {out[j].x : j \in {k \in 1..(i - 1) : slot(k) = slot(i)}}
                 /\ \A s \in DOMAIN before : before[s] \subseteq predict_model'[1].states[s]
      ]_vars

\* a reset has returned on a predict graph that serves loaded weights
C11_Witness ==
    /\ \E op \in ResetOps : Returned(op)
    /\ predict_model # None
    /\ predict_model[1].weights = FileWeights
    /\ train_model # None
    /\ \A s \in DOMAIN predict_model[1].states : predict_model[1].states[s] = {}

\* the statistic a column of the combined output carries
StatOf(column) ==
    CASE column = "gen_mu" -> "mean"
      [] column = "gen_sigma" -> "scale"
      [] column \in {"recognition_mu", "recognition_sigma"} -> "posterior"
      [] column \in {"prior_mu", "prior_sigma", "storn_prior_input"} -> "prior"
      [] OTHER -> "none"

\* C12: when evaluate_offline returns, for a model of any data_dim D and
\* latent_dim L, the padded target is as wide as the combined output; the
\* combined output's columns are D of the output mean, D of the output
\* scale, 2L of the posterior statistics and 2L of the prior statistics in
\* this order; the padded target is the D ground-truth columns followed by
\* zeros only; and the returned prediction is the first D columns of the
\* combined output, the output mean.
C12_PaddedTargetMatchesOutput ==
    Returned("evaluate_offline") =>
        LET v == last.out.value[1]
            D == self.data_dim
            L == self.latent_dim
        IN  /\ Len(v.padded_target) = Len(v.predictions)
            /\ Len(v.predictions) = 2 * D + 4 * L
            /\ \A k \in DOMAIN v.predictions :
                  StatOf(v.predictions[k]) =
                     IF k <= D THEN "mean"
                     ELSE IF k <= 2 * D THEN "scale"
                     ELSE IF k <= 2 * D + 2 * L THEN "posterior"
                     ELSE "prior"
            /\ \A k \in DOMAIN v.padded_target :
                  v.padded_target[k] = IF k <= D THEN "target" ELSE "zeros"
            /\ v.prediction = SubSeq(v.predictions, 1, D)
            /\ Len(v.prediction) = D
            /\ \A k \in DOMAIN v.prediction : StatOf(v.prediction[k]) = "mean"

\* a fitted model whose latent dimensionality is larger than its data
\* dimensionality has been evaluated
C12_Witness ==
    /\ Returned("evaluate_offline")
    /\ self.data_dim = 1
    /\ self.latent_dim = MaxDim
    /\ train_model[1].weights.kind = "trained"

\* tensor a is what tensor b was computed from, in one or more layers
ComputedFrom(a, b) == Len(a) < Len(b) /\ SubSeq(b, 1, Len(a)) = a

\* C13: in the recognition network built for any n_deep >= 1 and either
\* phase, every one of the n_deep dense layers before the recurrent layer
\* lies on the path from the input to the recurrent layer, whose input
\* therefore is never the untransformed (possibly embedded) input.
C13_RecurrentConsumesDenseStack ==
    Called("recognition_build") =>
        LET g == ret[1].value[1]
        IN  /\ Len(g.dense) = arg.kw.n_deep
            /\ \A k \in DOMAIN g.dense :
                  g.dense[k] = g.recogn_rnn.input \/ ComputedFrom(g.dense[k], g.recogn_rnn.input)
            /\ g.recogn_rnn.input # g.embedded
            /\ g.recogn_rnn.stateful = (arg.phase = "predict")

\* the number of the sequence a row fed to the predict graph belongs to (the
\* rows of sequence i are filled with i); 0 for a row of zero padding
SequenceOf(row) == row[1][1][1]

\* C14: when predict_one_step returns, the recurrent state that the output
\* for sequence i was computed from holds nothing but rows of sequence i
\* (and zero padding left in its slot by a smaller call), for calls of more
\* than one micro-batch too.
C14_StatePerSequence ==
    Returned("predict_one_step") =>
        LET out == last.out.value[1]
        IN  \A i \in DOMAIN out : \A row \in out[i].h : SequenceOf(row) \in {0, i}

\* a step of a fit call that got past its checks
FitStep == training # None \/ training' # None \/ nfits' # nfits

\* a step in which such a fit call returns
FitReturns == FitStep /\ training' = None /\ last'.out.raised = "none"

\* both graphs exist and hold the same weights
Parity(train, predict) ==
    /\ train # None
    /\ predict # None
    /\ train[1].weights = predict[1].weights

\* C15: no step of fit touches the predict graph, its weights or its
\* recurrent state; the train graph that fit returns with is a graph of
\* this call holding the checkpoint file's weights; so when fit returns the
\* two graphs do not hold the same weights, and after a fit they come to
\* hold the same weights in a load_predict_weights call only.
C15_FitChangesTrainGraphOnly ==
    [][/\ FitStep => predict_model' = predict_model
       /\ FitReturns =>
             /\ train_model'[1].weights = fs'[WeightsPath(self)][1]
             /\ ~Parity(train_model', predict_model')
       /\ (nfits' > 0 /\ Parity(train_model', predict_model')
               /\ ~Parity(train_model, predict_model))
             => last'.op = "load_predict_weights"
      ]_vars

====
